---- MODULE Spec2Model ----
(***************************************************************************)
(* Model of ModbusBuffer<CAPACITY> (src/src/lib.rs): a fixed-capacity ring *)
(* of Option<u8> slots with push / pop, the linearising snapshot frame(),  *)
(* the bit-by-bit CRC-16/MODBUS, the expanding-window search               *)
(* try_decode_buffer() and the public try_decode_frame().                  *)
(*                                                                         *)
(* Option<T> is modelled as a sequence: None is <<>>, Some(x) is <<x>>.    *)
(* Rust slices are 0-based and half open; TLA+ sequences are 1-based, so   *)
(* slice(s, lo, hi) stands for &s[lo..hi].                                 *)
(***************************************************************************)
EXTENDS Integers, Sequences, FiniteSets, TLC

\* ------------------------------------------------------------------ bounds

\* Largest CAPACITY instantiated under Spec and SpecFifo.
MaxCapacity == 6

\* Smallest CAPACITY new() accepts: assert!(CAPACITY > 4).
MinCapacity == 5

\* The bytes the transport delivers.  crc16(<<0, 64, 0>>) = 0x4000 and
\* crc16(<<0, 64, 0, 64>>) = 0x0000, so frames of 5 and of 6 bytes can be
\* formed from these two values.
Bytes == {0, 64}

\* SpecSearch: the longest input try_decode_buffer is applied to.
MaxBuffer == 8

\* SpecStream: the capacity of the receiving buffer, and the payloads of the frames
\* the transport delivers back to back.
StreamCapacity == 12
StreamPayloads == {<<1, 3, 0>>, <<1, 6, 0>>, <<1, 3, 0, 1>>}

\* SpecShort: payloads too short to be a frame, delivered with their CRC.
ShortPayloads == {<<1, 3>>, <<1>>}

\* SpecRequest: the request of the crate's tests (slave 0x12, function 0x06, address
\* 0x2222, value 0xABCD, CRC 0x9F 0xBE), received once by a buffer of capacity 10 and
\* twice by a buffer of capacity 15.
Request == <<18, 6, 34, 34, 171, 205, 159, 190>>
RequestCapacity == 10
OverlapCapacity == 15
Scenarios == {<<RequestCapacity, Request>>, <<OverlapCapacity, Request \o Request>>}

\* Values the builder methods are called with.
MinFrameLens == {2, 4}
MaxFrameLens == {2}

\* SpecConfig: the extreme values of min_frame_len, none and more than any capacity.
EdgeFrameLens == {0, MaxCapacity + 1}

\* ------------------------------------------------------------------ Option

None == <<>>
Some(x) == <<x>>
unwrap(o) == o[1]
is_some(o) == o # None

\* &s[lo..hi]
slice(s, lo, hi) == SubSeq(s, lo + 1, hi)

\* [v; n]
repeat(v, n) == [k \in 1..n |-> v]

\* ------------------------------------------------------------------ state

VARIABLES
    CAPACITY,       \* the const generic parameter of this instantiation
    ring_buffer,    \* [Option<u8>; CAPACITY], indexed 0 .. CAPACITY-1
    head,           \* index of the oldest byte
    tail,           \* index one past the newest byte
    size,           \* number of occupied slots
    min_frame_len,
    max_frame_len,
    overwrite,
    panicked,       \* TRUE once a panic has stopped the program
    op,             \* the last call made
    arg,            \* its argument (Some(item) for push, None otherwise)
    ret,            \* its return value (an Option)
    output,         \* the caller's output buffer after try_decode_frame
    pre,            \* self as it was when the last call was made
    rx,             \* SpecStream: bytes the transport has still to deliver;
                    \* SpecSearch: the input of try_decode_buffer
    pushed,         \* SpecFifo, SpecStream: the bytes pushed so far;
                    \* SpecRefine: the abstract bounded FIFO sequence
    popped          \* SpecFifo: what pop() has returned so far;
                    \* SpecStream: the payloads try_decode_frame has delivered so far;
                    \* SpecDrain: those it has delivered since the last push

ring == <<ring_buffer, head, tail, size>>
config == <<min_frame_len, max_frame_len, overwrite>>
call == <<op, arg, ret, output, pre>>
ghost == <<rx, pushed, popped>>
vars == <<CAPACITY, ring_buffer, head, tail, size, min_frame_len, max_frame_len,
          overwrite, panicked, op, arg, ret, output, pre, rx, pushed, popped>>

\* The struct as one value, for the operators below.
self ==
    [ring_buffer |-> ring_buffer, head |-> head, tail |-> tail, size |-> size,
     min_frame_len |-> min_frame_len, max_frame_len |-> max_frame_len,
     overwrite |-> overwrite]

\* ------------------------------------------------------------------ new

new(N) ==
    [ring_buffer |-> [k \in 0..(N - 1) |-> None], head |-> 0, tail |-> 0, size |-> 0,
     min_frame_len |-> 3, max_frame_len |-> N, overwrite |-> TRUE]

\* ------------------------------------------------------------------ push / pop

\* (faulty variant) the overwriting push advances tail but not head
push_head_stuck(s, N, item) ==
    IF s.size = N
    THEN [s EXCEPT !.ring_buffer[s.head] = Some(item),
                   !.tail = (s.tail + 1) % N]
    ELSE [s EXCEPT !.ring_buffer[s.tail] = Some(item),
                   !.tail = (s.tail + 1) % N,
                   !.size = s.size + 1]

\* push on a buffer that is not (full and overwrite = false)
push(s, N, item) ==
    IF s.size = N
    THEN [s EXCEPT !.ring_buffer[s.head] = Some(item),
                   !.head = (s.head + 1) % N,
                   !.tail = (s.tail + 1) % N]
    ELSE [s EXCEPT !.ring_buffer[s.tail] = Some(item),
                   !.tail = (s.tail + 1) % N,
                   !.size = s.size + 1]

\* (faulty variant) the capacity check is off by one
push_panics_early(s, N, ow) == s.size + 1 >= N /\ ~ow

\* push panics exactly here
push_panics(s, N, ow) == s.size = N /\ ~ow

\* (faulty variant) pop that frees the slot but leaves head where it was
pop_head_stuck(s, N) ==
    IF s.size = 0
    THEN s
    ELSE [s EXCEPT !.ring_buffer[s.head] = None, !.size = s.size - 1]

\* (faulty variant) pop that advances head but leaves the byte in its slot
pop_keeps_slot(s, N) ==
    IF s.size = 0
    THEN s
    ELSE [s EXCEPT !.head = (s.head + 1) % N, !.size = s.size - 1]

\* the ring after pop()
pop(s, N) ==
    IF s.size = 0
    THEN s
    ELSE [s EXCEPT !.ring_buffer[s.head] = None,
                   !.head = (s.head + 1) % N,
                   !.size = s.size - 1]

\* the value pop() returns
pop_item(s) == IF s.size = 0 THEN None ELSE s.ring_buffer[s.head]

\* for _ in 0..n { self.pop(); }
RECURSIVE pop_n(_, _, _)
pop_n(s, N, n) == IF n = 0 THEN s ELSE pop_n(pop(s, N), N, n - 1)

\* ------------------------------------------------------------------ frame

\* &self.ring_buffer[lo..hi] as a sequence of slots
ring_slice(s, lo, hi) == [k \in 1..(hi - lo) |-> s.ring_buffer[lo + k - 1]]

\* (faulty variant) the wrapped case copies the two parts in the wrong order
frame_slots_tail_first(s, N) ==
    IF s.size > 0
    THEN IF s.head < s.tail
         THEN ring_slice(s, s.head, s.tail)
         ELSE ring_slice(s, 0, s.tail) \o ring_slice(s, s.head, N)
    ELSE <<>>

\* the slots frame() visits, in the order it visits them
frame_slots(s, N) ==
    IF s.size > 0
    THEN IF s.head < s.tail
         THEN ring_slice(s, s.head, s.tail)
         ELSE ring_slice(s, s.head, N) \o ring_slice(s, 0, s.tail)
    ELSE <<>>

\* d.unwrap() panics on an empty slot
frame_panics(s, N) == \E k \in 1..Len(frame_slots(s, N)) : frame_slots(s, N)[k] = None

\* output_buffer after frame(): the visited slots from index 0, the rest untouched
frame_output(s, N, output_buffer) ==
    [k \in 1..N |-> IF k <= Len(frame_slots(s, N))
                    THEN unwrap(frame_slots(s, N)[k])
                    ELSE output_buffer[k]]

\* frame() returns Some(self.size)
frame(s) == Some(s.size)

\* ------------------------------------------------------------------ crc16

\* the values of u16
U16 == 0..65535

\* bit k of x
bit(x, k) == (x \div (2 ^ k)) % 2

\* a ^ b on u16, bit by bit
xor(a, b) ==
      ((bit(a, 0) + bit(b, 0)) % 2)
    + ((bit(a, 1) + bit(b, 1)) % 2) * 2
    + ((bit(a, 2) + bit(b, 2)) % 2) * 4
    + ((bit(a, 3) + bit(b, 3)) % 2) * 8
    + ((bit(a, 4) + bit(b, 4)) % 2) * 16
    + ((bit(a, 5) + bit(b, 5)) % 2) * 32
    + ((bit(a, 6) + bit(b, 6)) % 2) * 64
    + ((bit(a, 7) + bit(b, 7)) % 2) * 128
    + ((bit(a, 8) + bit(b, 8)) % 2) * 256
    + ((bit(a, 9) + bit(b, 9)) % 2) * 512
    + ((bit(a, 10) + bit(b, 10)) % 2) * 1024
    + ((bit(a, 11) + bit(b, 11)) % 2) * 2048
    + ((bit(a, 12) + bit(b, 12)) % 2) * 4096
    + ((bit(a, 13) + bit(b, 13)) % 2) * 8192
    + ((bit(a, 14) + bit(b, 14)) % 2) * 16384
    + ((bit(a, 15) + bit(b, 15)) % 2) * 32768

\* if (crc & 0x0001) != 0 { crc >>= 1; crc ^= 0xA001 } else { crc >>= 1 }
crc_shift[crc \in U16] == IF crc % 2 # 0 THEN xor(crc \div 2, 40961) ELSE crc \div 2

\* crc ^= u16::from(x); for _ in 0..8 { ... }
crc_byte(crc, x) ==
    crc_shift[crc_shift[crc_shift[crc_shift[
    crc_shift[crc_shift[crc_shift[crc_shift[xor(crc, x)]]]]]]]]

\* the accumulator after the loop over data[0 .. n)
RECURSIVE crc_update(_, _)
crc_update(data, n) ==
    IF n = 0
    THEN 65535
    ELSE [crc \in U16 |-> crc_byte(crc, data[n])][crc_update(data, n - 1)]

\* (faulty variant) the result is not byte-swapped
swap_bytes_none(crc) == crc

\* crc << 8 | crc >> 8, in u16
swap_bytes(crc) == ((crc * 256) % 65536) + (crc \div 256)

crc16(data) == swap_bytes(crc_update(data, Len(data)))

\* ------------------------------------------------------------------ check_crc

\* (faulty variant) the expected CRC bytes low byte first
crc_bytes_low_first(crc) == <<crc % 256, (crc - (crc % 256)) \div 256>>

\* [((crc & 0xff00) >> 8) as u8, (crc & 0x00ff) as u8]
crc_bytes(crc) == <<(crc - (crc % 256)) \div 256, crc % 256>>

\* a payload followed by its CRC, high byte first
with_crc(payload) == payload \o crc_bytes(crc16(payload))

\* SpecStream: the frames, and the streams of two frames with no separator
Frames == {with_crc(payload) : payload \in StreamPayloads}
Streams == {F1 \o F2 : F1 \in Frames, F2 \in Frames}

\* SpecShort: a short payload with its CRC, before or after a frame
ShortStreams ==
    {with_crc(payload) \o F : payload \in ShortPayloads, F \in Frames}
    \cup {F \o with_crc(payload) : payload \in ShortPayloads, F \in Frames}

\* the payloads of the windows of a stream that check_crc accepts by length
window_payloads(st) ==
    {slice(st, x[1], x[1] + x[2] - 2) :
        x \in {y \in (0..Len(st)) \X (5..Len(st)) : y[1] + y[2] <= Len(st)}}

\* crc16 tabulated once over the payloads the transport's bytes can form, so that
\* the search below does not recompute it window by window (f @@ <<>> is f, as a
\* table)
Payloads ==
    UNION ({[1..n -> Bytes] : n \in 3..(MaxBuffer - 2)}
           \cup {window_payloads(st) : st \in Streams \cup ShortStreams}
           \cup {window_payloads(sc[2]) : sc \in Scenarios})
crc16_table == [data \in Payloads |-> crc16(data)] @@ <<>>

\* table[data] where the table has it, value otherwise
memo(table, data, value) == IF data \in DOMAIN table THEN table[data] ELSE value

\* Self::crc16(data)
crc16_of(data) == memo(crc16_table, data, crc16(data))

\* (faulty variant) a window of 4 bytes is accepted
check_crc_of_four(frm) ==
    IF Len(frm) > 3
    THEN crc_bytes(crc16_of(slice(frm, 0, Len(frm) - 2)))
            = slice(frm, Len(frm) - 2, Len(frm))
    ELSE FALSE

check_crc(frm) ==
    IF Len(frm) > 4
    THEN crc_bytes(crc16_of(slice(frm, 0, Len(frm) - 2))) = slice(frm, Len(frm) - 2, Len(frm))
    ELSE FALSE

\* ------------------------------------------------------------------ try_decode_buffer

\* the forward window at position i and its mirror, as the loop body forms them
forward(buffer, window_size, i) == slice(buffer, i, i + window_size)
mirror(buffer, window_size, i) ==
    slice(buffer, Len(buffer) - i - window_size, Len(buffer) - i)

\* the body of the for loop at position i returns instead of going on to i + 1
returns_at(buffer, window_size, i) ==
    \/ check_crc(forward(buffer, window_size, i))
    \/ Len(buffer) = window_size
    \/ check_crc(mirror(buffer, window_size, i))

\* (faulty variant) at each position the mirror window is checked before the forward
\* one
returned_mirror_first(buffer, window_size, i) ==
    IF Len(buffer) # window_size /\ check_crc(mirror(buffer, window_size, i))
    THEN Some(<<Len(buffer) - i - window_size, Len(buffer) - i - 2>>)
    ELSE IF check_crc(forward(buffer, window_size, i))
    THEN Some(<<i, i + window_size - 2>>)
    ELSE None

\* what it returns there
returned_at(buffer, window_size, i) ==
    IF check_crc(forward(buffer, window_size, i))
    THEN Some(<<i, i + window_size - 2>>)
    ELSE IF Len(buffer) = window_size
    THEN None
    ELSE Some(<<Len(buffer) - i - window_size, Len(buffer) - i - 2>>)

\* the positions of for i in 0..=buffer.len() - window_size at which the body returns
returning(buffer, window_size) ==
    {i \in 0..(Len(buffer) - window_size) : returns_at(buffer, window_size, i)}

\* the first of them
first(positions) == CHOOSE i \in positions : \A k \in positions : i <= k

\* (faulty variant) the window_size == buffer.len() return is taken before the
\* forward check
RECURSIVE search_returns_early(_, _)
search_returns_early(buffer, window_size) ==
    IF window_size > Len(buffer) THEN None
    ELSE IF Len(buffer) = window_size THEN None
    ELSE IF returning(buffer, window_size) = {}
    THEN search_returns_early(buffer, window_size + 1)
    ELSE returned_at(buffer, window_size, first(returning(buffer, window_size)))

\* the while loop from window_size: the for loop runs to its first return, or to
\* its end and then window_size += 1
RECURSIVE search(_, _)
search(buffer, window_size) ==
    IF window_size > Len(buffer) THEN None
    ELSE IF returning(buffer, window_size) = {}
    THEN search(buffer, window_size + 1)
    ELSE returned_at(buffer, window_size, first(returning(buffer, window_size)))

\* the loops' indices stay in range: i + window_size <= buffer.len() and
\* j = buffer.len() - i - window_size does not underflow
probes_in_bounds(min_len, buffer) ==
    \A window_size \in (min_len + 2)..Len(buffer) :
        \A i \in 0..(Len(buffer) - window_size) :
            /\ i + window_size <= Len(buffer)
            /\ Len(buffer) - i - window_size >= 0

\* (faulty variant) the search starts one window size too far
try_decode_buffer_skips(min_len, buffer) ==
    IF Len(buffer) < min_len + 2 THEN None ELSE search(buffer, min_len + 3)

\* fn try_decode_buffer(&self, buffer: &[u8]) -> Option<(usize, usize)>
try_decode_buffer(min_len, buffer) ==
    IF Len(buffer) < min_len + 2 THEN None ELSE search(buffer, min_len + 2)

\* ------------------------------------------------------------------ try_decode_frame

\* (faulty variant) only the matched frame and its CRC are removed, not what precedes it
len_to_remove_frame_only(h, t) == t - h + 2

\* (faulty variant) nothing is removed after a match
len_to_remove_nothing(h, t) == 0

\* let len_to_remove = tail + 2
len_to_remove(h, t) == t + 2

\* let frame_length = tail - head
frame_length(h, t) == t - h

\* buffer[..n].copy_from_slice(&frm[h..t])
copy_from_slice(buffer, n, frm, h, t) ==
    [k \in 1..Len(buffer) |-> IF k <= n THEN slice(frm, h, t)[k] ELSE buffer[k]]

\* the early return: the buffer is empty or shorter than min_frame_len
too_short(s, min_len) == s.size = 0 \/ s.size < min_len

\* tail - head underflows, or &frame[head..tail] or buffer[..frame_length] is out
\* of range
matched_panics(buffer, frm, h, t) ==
    t < h \/ t > Len(frm) \/ frame_length(h, t) > Len(buffer)

\* the branch taken on Some((head, tail)) = (h, t): pop the consumed bytes, copy
\* the payload out, return its length
matched(s, N, buffer, frm, h, t) ==
    [self |-> pop_n(s, N, len_to_remove(h, t)),
     ret |-> Some(frame_length(h, t)),
     buffer |-> copy_from_slice(buffer, frame_length(h, t), frm, h, t),
     panics |-> matched_panics(buffer, frm, h, t)]

\* (faulty variant) a failed search drops the oldest byte
decoded_drops_oldest(s, N, buffer, frm, found) ==
    IF is_some(found)
    THEN matched(s, N, buffer, frm, unwrap(found)[1], unwrap(found)[2])
    ELSE [self |-> pop(s, N), ret |-> None, buffer |-> buffer, panics |-> FALSE]

\* if let Some((head, tail)) = found { ... } else { None }
decoded(s, N, buffer, frm, found) ==
    IF is_some(found)
    THEN matched(s, N, buffer, frm, unwrap(found)[1], unwrap(found)[2])
    ELSE [self |-> s, ret |-> None, buffer |-> buffer, panics |-> FALSE]

\* &frame[..len] when frame() did not panic
contents_of(s, N) == slice(frame_output(s, N, repeat(0, N)), 0, unwrap(frame(s)))

\* the search over &frame[..len], len = self.frame(&mut frame).expect(..)
scanned(s, N, min_len, buffer, frm) ==
    decoded(s, N, buffer, frm, try_decode_buffer(min_len, slice(frm, 0, unwrap(frame(s)))))

\* try_decode_frame on ring s with the caller's buffer: the ring afterwards, the
\* returned Option<usize>, the caller's buffer afterwards, and whether it panicked
try_decode_frame(s, N, min_len, buffer) ==
    IF too_short(s, min_len)
    THEN [self |-> s, ret |-> None, buffer |-> buffer, panics |-> FALSE]
    ELSE IF frame_panics(s, N) \/ ~probes_in_bounds(min_len, contents_of(s, N))
    THEN [self |-> s, ret |-> None, buffer |-> buffer, panics |-> TRUE]
    ELSE scanned(s, N, min_len, buffer, frame_output(s, N, repeat(0, N)))

\* ------------------------------------------------------------------ actions

SetSelf(s) ==
    /\ ring_buffer' = s.ring_buffer
    /\ head' = s.head
    /\ tail' = s.tail
    /\ size' = s.size
    /\ min_frame_len' = s.min_frame_len
    /\ max_frame_len' = s.max_frame_len
    /\ overwrite' = s.overwrite

\* buff.push(item)
Push(item) ==
    /\ ~panicked
    /\ op' = "push"
    /\ pre' = self
    /\ arg' = Some(item)
    /\ ret' = None
    /\ output' = <<>>
    /\ UNCHANGED CAPACITY
    /\ IF push_panics(self, CAPACITY, overwrite)
       THEN panicked' = TRUE /\ UNCHANGED <<ring, config>>
       ELSE panicked' = FALSE /\ SetSelf(push(self, CAPACITY, item))

\* buff.pop()
Pop ==
    /\ ~panicked
    /\ op' = "pop"
    /\ pre' = self
    /\ arg' = None
    /\ ret' = pop_item(self)
    /\ output' = <<>>
    /\ SetSelf(pop(self, CAPACITY))
    /\ UNCHANGED <<CAPACITY, panicked>>

\* the effect of a try_decode_frame call whose outcome is r
Decoded(r) ==
    /\ op' = "try_decode_frame"
    /\ arg' = None
    /\ ret' = r.ret
    /\ output' = r.buffer
    /\ panicked' = r.panics
    /\ SetSelf(r.self)

\* buff.try_decode_frame(&mut [0u8; CAPACITY])
TryDecodeFrame ==
    /\ ~panicked
    /\ pre' = self
    /\ Decoded(try_decode_frame(self, CAPACITY, min_frame_len, repeat(0, CAPACITY)))
    /\ UNCHANGED CAPACITY

\* The builder methods take self by value and return it: they are called in the
\* construction chain ModbusBuffer::<N>::new().min_frame_len(..).overwrite(..),
\* before the buffer is first used.
constructing == op \in {"new", "min_frame_len", "max_frame_len", "overwrite"}

\* .min_frame_len(n)
MinFrameLen(n) ==
    /\ constructing
    /\ SetSelf([self EXCEPT !.min_frame_len = n])
    /\ op' = "min_frame_len" /\ arg' = Some(n) /\ ret' = None /\ output' = <<>>
    /\ pre' = self
    /\ UNCHANGED <<CAPACITY, panicked>>

\* .max_frame_len(n)
MaxFrameLen(n) ==
    /\ constructing
    /\ SetSelf([self EXCEPT !.max_frame_len = n])
    /\ op' = "max_frame_len" /\ arg' = Some(n) /\ ret' = None /\ output' = <<>>
    /\ pre' = self
    /\ UNCHANGED <<CAPACITY, panicked>>

\* .overwrite(b)
Overwrite(b) ==
    /\ constructing
    /\ SetSelf([self EXCEPT !.overwrite = b])
    /\ op' = "overwrite" /\ arg' = Some(b) /\ ret' = None /\ output' = <<>>
    /\ pre' = self
    /\ UNCHANGED <<CAPACITY, panicked>>

\* ------------------------------------------------------------------ Spec

\* ModbusBuffer::<N>::new() for a capacity N the assertion accepts
Constructed(N) ==
    /\ CAPACITY = N
    /\ ring_buffer = new(CAPACITY).ring_buffer
    /\ head = new(CAPACITY).head
    /\ tail = new(CAPACITY).tail
    /\ size = new(CAPACITY).size
    /\ min_frame_len = new(CAPACITY).min_frame_len
    /\ max_frame_len = new(CAPACITY).max_frame_len
    /\ overwrite = new(CAPACITY).overwrite
    /\ panicked = FALSE
    /\ op = "new" /\ arg = None /\ ret = None /\ output = <<>>
    /\ pre = new(CAPACITY)

InitNew == \E N \in MinCapacity..MaxCapacity : Constructed(N)

Init == InitNew /\ rx = <<>> /\ pushed = <<>> /\ popped = <<>>

DoPush == (\E item \in Bytes : Push(item)) /\ UNCHANGED ghost
DoPop == Pop /\ UNCHANGED ghost
DoTryDecodeFrame == TryDecodeFrame /\ UNCHANGED ghost
DoMinFrameLen == (\E n \in MinFrameLens : MinFrameLen(n)) /\ UNCHANGED ghost
DoMaxFrameLen == (\E n \in MaxFrameLens : MaxFrameLen(n)) /\ UNCHANGED ghost
DoOverwrite == (\E b \in BOOLEAN : Overwrite(b)) /\ UNCHANGED ghost

Next ==
    \/ DoPush
    \/ DoPop
    \/ DoTryDecodeFrame
    \/ DoMinFrameLen
    \/ DoMaxFrameLen
    \/ DoOverwrite

Spec == Init /\ [][Next]_vars

\* ------------------------------------------------------------------ SpecFifo

\* k <= CAPACITY pushes into a new buffer, then pops: pushed and popped record what
\* went in and what pop() returned.
FifoOverwrite == pushed = <<>> /\ (\E b \in BOOLEAN : Overwrite(b)) /\ UNCHANGED ghost

FifoPush ==
    /\ popped = <<>>
    /\ Len(pushed) < CAPACITY
    /\ \E item \in Bytes : Push(item) /\ pushed' = Append(pushed, item)
    /\ UNCHANGED <<rx, popped>>

FifoPop ==
    /\ Len(popped) < Len(pushed)
    /\ Pop
    /\ popped' = Append(popped, ret')
    /\ UNCHANGED <<rx, pushed>>

FifoNext == FifoOverwrite \/ FifoPush \/ FifoPop

SpecFifo == Init /\ [][FifoNext]_vars

\* ------------------------------------------------------------------ SpecSearch

\* try_decode_buffer as a function of its input: rx is the input, min_frame_len the
\* configured minimum, ret the result.
Inputs == UNION {[1..n -> Bytes] : n \in 0..MaxBuffer}

SearchInit == Constructed(MinCapacity) /\ rx \in Inputs /\ pushed = <<>> /\ popped = <<>>

\* self.try_decode_buffer(&rx)
TryDecodeBuffer ==
    /\ op # "try_decode_buffer"
    /\ op' = "try_decode_buffer"
    /\ arg' = None
    /\ ret' = try_decode_buffer(min_frame_len, rx)
    /\ output' = <<>>
    /\ pre' = self
    /\ UNCHANGED <<CAPACITY, ring, config, panicked, ghost>>

SearchNext == DoMinFrameLen \/ TryDecodeBuffer

SpecSearch == SearchInit /\ [][SearchNext]_vars

\* ------------------------------------------------------------------ SpecStream

\* The transport delivers a stream byte by byte; the receiver pushes each byte and
\* may try to decode a frame at any time.
StreamInit ==
    Constructed(StreamCapacity) /\ rx \in Streams /\ pushed = <<>> /\ popped = <<>>

StreamReceive ==
    /\ rx # <<>>
    /\ Push(Head(rx))
    /\ rx' = Tail(rx)
    /\ pushed' = Append(pushed, Head(rx))
    /\ UNCHANGED popped

StreamDecode ==
    /\ TryDecodeFrame
    /\ popped' = IF is_some(ret')
                 THEN Append(popped, slice(output', 0, unwrap(ret')))
                 ELSE popped
    /\ UNCHANGED <<rx, pushed>>

StreamNext == StreamReceive \/ StreamDecode

SpecStream == StreamInit /\ [][StreamNext]_vars

\* ------------------------------------------------------------------ SpecCrc

\* check_crc as a function of a candidate: rx is a payload, the candidate is rx
\* followed by the high byte and the low byte of crc16(rx).
candidate(payload) == payload \o <<crc16(payload) \div 256, crc16(payload) % 256>>

\* Self::check_crc(&candidate)
CheckCrc ==
    /\ op # "check_crc"
    /\ op' = "check_crc"
    /\ arg' = Some(candidate(rx))
    /\ ret' = Some(check_crc(candidate(rx)))
    /\ output' = <<>>
    /\ pre' = self
    /\ UNCHANGED <<CAPACITY, ring, config, panicked, ghost>>

SpecCrc == SearchInit /\ [][CheckCrc]_vars

\* ------------------------------------------------------------------ SpecRequest

\* The scenarios of test_receive_request and test_data_remain_on_tail_with_overlap:
\* the bytes are pushed in order; the receiver may pop or try to decode at any time.
RequestInit ==
    /\ \E sc \in Scenarios : Constructed(sc[1]) /\ rx = sc[2]
    /\ pushed = <<>>
    /\ popped = <<>>

RequestNext == StreamReceive \/ StreamDecode \/ DoPop

SpecRequest == RequestInit /\ [][RequestNext]_vars

\* ------------------------------------------------------------------ SpecRefine

\* The abstract bounded FIFO the ring implements, kept in pushed: a push appends
\* (dropping the oldest element when the sequence is full), a pop removes the
\* oldest element, a decode removes everything up to the end of the matched window.
fifo_push(q, N, ow, item) ==
    IF Len(q) < N THEN Append(q, item)
    ELSE IF ow THEN Append(Tail(q), item)
    ELSE q

fifo_pop(q) == IF q = <<>> THEN q ELSE Tail(q)

fifo_drop(q, found) ==
    IF is_some(found) THEN slice(q, unwrap(found)[2] + 2, Len(q)) ELSE q

RefinePush ==
    \E item \in Bytes :
        /\ Push(item)
        /\ pushed' = fifo_push(pushed, CAPACITY, overwrite, item)
        /\ UNCHANGED <<rx, popped>>

RefinePop == Pop /\ pushed' = fifo_pop(pushed) /\ UNCHANGED <<rx, popped>>

RefineDecode ==
    /\ TryDecodeFrame
    /\ pushed' = fifo_drop(pushed, try_decode_buffer(min_frame_len, pushed))
    /\ UNCHANGED <<rx, popped>>

\* self.frame(&mut [0u8; CAPACITY])
Frame ==
    /\ ~panicked
    /\ op' = "frame"
    /\ arg' = None
    /\ pre' = self
    /\ ret' = IF frame_panics(self, CAPACITY) THEN None ELSE frame(self)
    /\ output' = IF frame_panics(self, CAPACITY)
                 THEN <<>>
                 ELSE frame_output(self, CAPACITY, repeat(0, CAPACITY))
    /\ panicked' = frame_panics(self, CAPACITY)
    /\ UNCHANGED <<CAPACITY, ring, config>>

RefineFrame == Frame /\ UNCHANGED ghost

RefineNext ==
    \/ RefinePush
    \/ RefinePop
    \/ RefineDecode
    \/ RefineFrame
    \/ DoMinFrameLen
    \/ DoOverwrite

SpecRefine == Init /\ [][RefineNext]_vars

\* ------------------------------------------------------------------ SpecConfig

\* As Spec, with min_frame_len configured to 0 or beyond the capacity.
DoEdgeMinFrameLen == (\E n \in EdgeFrameLens : MinFrameLen(n)) /\ UNCHANGED ghost

ConfigNext ==
    \/ DoPush
    \/ DoPop
    \/ DoTryDecodeFrame
    \/ DoEdgeMinFrameLen
    \/ DoMaxFrameLen
    \/ DoOverwrite

SpecConfig == Init /\ [][ConfigNext]_vars

\* ------------------------------------------------------------------ SpecDrain

\* The receiver of SpecStream calling try_decode_frame again and again: popped
\* holds the payloads delivered since the last push.
DrainReceive ==
    /\ rx # <<>>
    /\ Push(Head(rx))
    /\ rx' = Tail(rx)
    /\ pushed' = Append(pushed, Head(rx))
    /\ popped' = <<>>

DrainDecode == StreamDecode

DrainNext == DrainReceive \/ DrainDecode

SpecDrain == StreamInit /\ [][DrainNext]_vars

\* ------------------------------------------------------------------ SpecShort

\* As SpecStream, with min_frame_len configured at construction and streams in
\* which a payload of fewer than 3 bytes arrives with a correct CRC.
ShortInit ==
    Constructed(StreamCapacity) /\ rx \in ShortStreams /\ pushed = <<>> /\ popped = <<>>

ShortNext == DoMinFrameLen \/ StreamReceive \/ StreamDecode

SpecShort == ShortInit /\ [][ShortNext]_vars

\* ------------------------------------------------------------------ views

\* len(), is_empty(), is_full()
len(s) == s.size
is_empty(s) == s.size = 0
is_full(s, N) == s.size = N

\* The logical contents of ring s, oldest byte first: the slots head, head+1, ...
\* modulo N (an empty slot among them shows as None).
contents(s, N) ==
    [k \in 1..s.size |->
        IF s.ring_buffer[(s.head + k - 1) % N] = None
        THEN None
        ELSE unwrap(s.ring_buffer[(s.head + k - 1) % N])]

Contents == contents(self, CAPACITY)
PreContents == contents(pre, CAPACITY)

\* ------------------------------------------------------------------ C1

\* C1: after k <= CAPACITY pushes into a new buffer len() is k; the pops that follow
\* return the pushed bytes in push order; after k pops the buffer is empty.
FifoOrder ==
    /\ ~panicked
    /\ popped = <<>> => len(self) = Len(pushed)
    /\ \A k \in 1..Len(popped) : popped[k] = Some(pushed[k])
    /\ len(self) = Len(pushed) - Len(popped)
    /\ Len(popped) = Len(pushed) => is_empty(self)

\* a full buffer of two different bytes has been pushed and popped back
FifoOrderWitness ==
    /\ Len(pushed) = CAPACITY
    /\ Len(popped) = CAPACITY
    /\ pushed[1] # pushed[2]
    /\ op = "pop"

\* ------------------------------------------------------------------ C2

\* C2: with overwrite = true a push of b on a full buffer keeps len() = CAPACITY and
\* turns the contents x0, x1, ..., x(N-1) into x1, ..., x(N-1), b.
OverwriteDropsOldest ==
    (op = "push" /\ is_full(pre, CAPACITY) /\ overwrite) =>
        /\ ~panicked
        /\ len(self) = CAPACITY
        /\ Contents = Tail(PreContents) \o arg

\* an overwriting push on a ring whose head is not at slot 0, dropping a byte that
\* differs from the one pushed
OverwriteDropsOldestWitness ==
    /\ op = "push" /\ is_full(pre, CAPACITY) /\ overwrite
    /\ pre.head > 0
    /\ PreContents[1] # unwrap(arg)

\* ------------------------------------------------------------------ C3

\* C3: push panics exactly when the buffer is full and overwrite = false, and the
\* panicking push leaves head, tail, size and every slot as they were.
PushPanicsOnlyWhenFull ==
    op = "push" =>
        /\ panicked <=> (is_full(pre, CAPACITY) /\ ~overwrite)
        /\ panicked => self = pre

\* the fatal push has happened
PushPanicsOnlyWhenFullWitness ==
    op = "push" /\ panicked /\ is_full(self, CAPACITY) /\ ~overwrite

\* ------------------------------------------------------------------ C4

\* what try_decode_frame would return if it were called now
next_frame == try_decode_frame(self, CAPACITY, min_frame_len, repeat(0, CAPACITY)).ret

\* C4: a pop() or try_decode_frame() that returns None leaves head, tail, size, the
\* slots and the configuration as they were, and the same call made again, with no
\* push in between, returns None again.
NoneLeavesState ==
    /\ (op \in {"pop", "try_decode_frame"} /\ ret = None /\ ~panicked) => self = pre
    /\ (op = "pop" /\ ret = None) => pop_item(self) = None
    /\ (op = "try_decode_frame" /\ ret = None /\ ~panicked) => next_frame = None

\* a decode attempt on a partially received frame has returned None
NoneLeavesStateWitness ==
    op = "try_decode_frame" /\ ret = None /\ Contents = <<0, 64, 0, 64>>

\* ------------------------------------------------------------------ C5

\* the match try_decode_buffer finds in the contents the last call started from
pre_match == try_decode_buffer(min_frame_len, PreContents)

\* what C5 says of a match (h, t) over the contents S
consumed_through_crc(S, h, t) ==
    /\ ret = Some(t - h)
    /\ slice(output, 0, t - h) = slice(S, h, t)
    /\ len(self) = Len(S) - (t + 2)
    /\ Contents = slice(S, t + 2, Len(S))

\* C5: a successful try_decode_frame with match (h, t) over S returns t - h, writes
\* S[h .. t) to the start of the output and leaves exactly S[t + 2 ..) in the ring.
DecodeConsumesThroughCrc ==
    (op = "try_decode_frame" /\ is_some(ret)) =>
        /\ is_some(pre_match)
        /\ consumed_through_crc(PreContents, unwrap(pre_match)[1], unwrap(pre_match)[2])

\* a frame preceded by noise has been decoded from a ring that wraps
DecodeConsumesThroughCrcWitness ==
    /\ op = "try_decode_frame" /\ is_some(ret)
    /\ unwrap(pre_match)[1] > 0
    /\ pre.head > 0

\* ------------------------------------------------------------------ C8

Max(a, b) == IF a >= b THEN a ELSE b

\* the window S[i .. i + w) ends in the CRC16 of the bytes before its last two
crc_valid(S, i, w) ==
    crc_bytes(crc16_of(slice(S, i, i + w - 2))) = slice(S, i + w - 2, i + w)

\* the start positions and lengths of the CRC-valid windows of S of length lo or more
valid_windows(S, lo) ==
    {x \in (0..Len(S)) \X (lo..Len(S)) : x[1] + x[2] <= Len(S) /\ crc_valid(S, x[1], x[2])}

payload_of(F) == slice(F, 0, Len(F) - 2)

\* C6: when the buffer holds exactly two complete frames F1 then F2, the first
\* try_decode_frame returns F1's payload and leaves exactly F2 in the buffer, and the
\* try_decode_frame on what it left returns F2's payload and leaves the buffer empty.
BackToBackInOrder ==
    \A F1 \in Frames, F2 \in Frames :
        /\ (op = "try_decode_frame" /\ PreContents = F1 \o F2) =>
                /\ ret = Some(Len(F1) - 2)
                /\ slice(output, 0, Len(F1) - 2) = payload_of(F1)
                /\ Contents = F2
        /\ (op = "try_decode_frame" /\ PreContents = F2) =>
                /\ ret = Some(Len(F2) - 2)
                /\ slice(output, 0, Len(F2) - 2) = payload_of(F2)
                /\ len(self) = 0

\* ------------------------------------------------------------------ C7

\* C7: on a successful try_decode_frame with match (h, t), no CRC-valid window of
\* length max(min_frame_len + 2, 5) or more starts before h, that is, lies within or
\* overlaps the dropped bytes S[0 .. h).
OnlyNoiseDiscarded ==
    (op = "try_decode_frame" /\ is_some(ret)) =>
        \A x \in valid_windows(PreContents, Max(min_frame_len + 2, 5)) :
            x[1] >= unwrap(pre_match)[1]

\* ------------------------------------------------------------------ C9

\* the windows of S of length lo or more that check_crc accepts: CRC-valid and
\* longer than 4 bytes
checked_windows(S, lo) == {x \in valid_windows(S, lo) : x[2] > 4}

DecodedWithinMaxFrameLen ==
    (op = "try_decode_frame" /\ is_some(ret)) => unwrap(ret) <= max_frame_len
\* ------------------------------------------------------------------ C11

\* C11: a successful try_decode_frame returns a payload length that is at least
\* min_frame_len and at least 3.
AtLeastMinFrameLen ==
    (op = "try_decode_frame" /\ is_some(ret)) =>
        /\ unwrap(ret) >= min_frame_len
        /\ unwrap(ret) >= 3

\* with min_frame_len = 2 a frame was decoded from contents that begin with a
\* 4-byte window carrying a correct CRC
AtLeastMinFrameLenWitness ==
    /\ op = "try_decode_frame" /\ is_some(ret)
    /\ min_frame_len = 2
    /\ crc_valid(PreContents, 0, 4)
\* ------------------------------------------------------------------ C12

\* C12: for any payload, of any length, check_crc returns true on the payload
\* followed by the high and low byte of its crc16.
CrcRoundTripAnyLength == op = "check_crc" => ret = Some(TRUE)

\* C12, for payloads of 3 bytes or more: check_crc returns true on the payload
\* followed by the high and low byte of its crc16; on a shorter payload followed by
\* its CRC it returns false.
CrcRoundTrip == op = "check_crc" => ret = Some(Len(rx) >= 3)

\* a payload of two different bytes and its CRC passed check_crc
CrcRoundTripWitness ==
    /\ op = "check_crc" /\ ret = Some(TRUE)
    /\ Len(rx) > 3 /\ rx[1] # rx[2]
\* ------------------------------------------------------------------ C13

\* C13: the crc16 of 12 06 22 22 AB CD is the byte pair 9F BE, no shorter window of
\* the 8 bytes validates, and after pushing the 8 bytes into an empty buffer of
\* capacity 10 try_decode_frame returns 6 with that payload and leaves the buffer
\* empty.
ReferenceRequest ==
    /\ crc16(slice(Request, 0, 6)) = 159 * 256 + 190
    /\ valid_windows(Request, 5) = {<<0, 8>>}
    /\ (/\ CAPACITY = RequestCapacity
        /\ op = "try_decode_frame"
        /\ pushed = Request
        /\ PreContents = Request) =>
            /\ ret = Some(6)
            /\ output = slice(Request, 0, 6) \o repeat(0, 4)
            /\ len(self) = 0

\* the request has been decoded by the buffer of capacity 10
ReferenceRequestWitness ==
    /\ CAPACITY = RequestCapacity
    /\ op = "try_decode_frame"
    /\ PreContents = Request
    /\ is_some(ret)

\* ------------------------------------------------------------------ C14

\* C14: after the two requests (16 bytes) are pushed into the buffer of capacity 15
\* with overwrite = true, one try_decode_frame returns the 6-byte payload of the
\* second request and leaves len() = 0.
OverflowRecovery ==
    (/\ CAPACITY = OverlapCapacity
     /\ op = "try_decode_frame"
     /\ pushed = Request \o Request
     /\ len(pre) = OverlapCapacity) =>
        /\ overwrite
        /\ PreContents = Tail(Request) \o Request
        /\ ret = Some(6)
        /\ slice(output, 0, 6) = slice(Request, 0, 6)
        /\ len(self) = 0

\* the decode after the overflow has happened
OverflowRecoveryWitness ==
    /\ CAPACITY = OverlapCapacity
    /\ op = "try_decode_frame"
    /\ pushed = Request \o Request
    /\ len(pre) = OverlapCapacity
    /\ is_some(ret)
\* ------------------------------------------------------------------ C15

\* C15: after any sequence of push, pop and try_decode_frame, frame(output) returns
\* the current size, output[0 .. size) is the abstract FIFO sequence oldest byte
\* first, and frame leaves the ring as it was.
FrameRefinesFifo ==
    /\ ~panicked => len(self) = Len(pushed)
    /\ op = "frame" =>
            /\ ~panicked
            /\ ret = Some(size)
            /\ slice(output, 0, size) = pushed
            /\ self = pre

\* frame() on a wrapped ring that is not full, and on a full ring whose head is
\* not at slot 0, holding different bytes
FrameRefinesFifoWitness ==
    /\ op = "frame"
    /\ head > 0
    /\ head >= tail
    /\ size >= CAPACITY - 1
    /\ pushed[1] # pushed[2]
\* ------------------------------------------------------------------ C16

\* the start positions try_decode_buffer probes at window size w in a buffer of n
\* bytes, in order: 0, n - w, 1, n - w - 1, ...
probe_order(n, w) ==
    [k \in 1..(2 * (n - w + 1)) |->
        IF k % 2 = 1 THEN (k - 1) \div 2 ELSE n - ((k - 2) \div 2) - w]

\* position p is the first in the probe order whose window of w bytes is CRC-valid
first_in_order(S, p, w) ==
    \E k \in DOMAIN probe_order(Len(S), w) :
        /\ probe_order(Len(S), w)[k] = p
        /\ <<p, w>> \in checked_windows(S, w)
        /\ \A m \in 1..(k - 1) :
                <<probe_order(Len(S), w)[m], w>> \notin checked_windows(S, w)

\* C16: the match try_decode_buffer returns is the first CRC-valid window of its
\* size in the order forward position i, then its mirror len - i - w, for i = 0, 1,
\* ...; a forward position wins over its own mirror.
TieBreakOrder ==
    (op = "try_decode_buffer" /\ is_some(ret)) =>
        first_in_order(rx, unwrap(ret)[1], unwrap(ret)[2] - unwrap(ret)[1] + 2)

\* a mirror position was returned although a window of the same size further left
\* is CRC-valid: the result is not the leftmost valid window
TieBreakOrderWitness ==
    /\ op = "try_decode_buffer" /\ is_some(ret)
    /\ \E p \in 0..(unwrap(ret)[1] - 1) :
            <<p, unwrap(ret)[2] - unwrap(ret)[1] + 2>>
                \in checked_windows(rx, unwrap(ret)[2] - unwrap(ret)[1] + 2)
\* ------------------------------------------------------------------ C17

\* C17: nothing panics except push on a full buffer with overwrite = false: frame()
\* never meets an empty slot, the window indices stay within the buffer, the bytes
\* popped after a match are no more than len, and the payload copied is no longer
\* than the capacity.
OnlyPushPanics ==
    /\ panicked => (op = "push" /\ is_full(pre, CAPACITY) /\ ~pre.overwrite)
    /\ ~frame_panics(self, CAPACITY)
    /\ probes_in_bounds(min_frame_len, Contents)
    /\ (op = "try_decode_frame" /\ is_some(ret)) =>
            /\ len_to_remove(unwrap(pre_match)[1], unwrap(pre_match)[2])
                    <= Len(PreContents)
            /\ frame_length(unwrap(pre_match)[1], unwrap(pre_match)[2]) <= CAPACITY

\* with min_frame_len = 0 a frame was decoded from a full ring whose head was not
\* at slot 0
OnlyPushPanicsWitness ==
    /\ op = "try_decode_frame" /\ is_some(ret)
    /\ min_frame_len = 0
    /\ is_full(pre, CAPACITY)
    /\ pre.head > 0
\* ------------------------------------------------------------------ C18

\* C18: in every reachable state 0 <= size <= N, 0 <= head < N, 0 <= tail < N,
\* tail = (head + size) mod N, and a slot is occupied exactly when its index is one
\* of head, head + 1, ..., head + size - 1 modulo N.
RingInvariant ==
    /\ size \in 0..CAPACITY
    /\ head \in 0..(CAPACITY - 1)
    /\ tail \in 0..(CAPACITY - 1)
    /\ tail = (head + size) % CAPACITY
    /\ \A k \in 0..(CAPACITY - 1) :
            is_some(ring_buffer[k])
                <=> (\E d \in 0..(size - 1) : k = (head + d) % CAPACITY)

\* a decode has left bytes in a ring that wraps around the end of the storage
RingInvariantWitness ==
    /\ op = "try_decode_frame" /\ is_some(ret)
    /\ size > 0
    /\ head > tail
\* ------------------------------------------------------------------ C19

\* C19: every successful try_decode_frame decreases len() by at least 5 and none
\* increases it; between two pushes at most floor(N / 5) calls succeed, and after
\* that many successes the next call returns None.
DrainTerminates ==
    /\ (op = "try_decode_frame" /\ is_some(ret)) => len(self) <= len(pre) - 5
    /\ op = "try_decode_frame" => len(self) <= len(pre)
    /\ Len(popped) <= CAPACITY \div 5
    /\ Len(popped) = CAPACITY \div 5 => next_frame = None

\* two frames were delivered by two calls in a row and the third call returned None
DrainTerminatesWitness ==
    /\ op = "try_decode_frame" /\ ret = None
    /\ Len(popped) = 2
    /\ rx = <<>>

====
